---- MODULE Spec2Model ----
(***************************************************************************)
(* Model of the gox ID allocator (src/id.go): the ID value type with its   *)
(* base-62 "short" and base-34 "pretty" string codecs, the                 *)
(* SnakeIDGenerator bit packer with its construction validation, and the   *)
(* number sources that feed it.                                            *)
(*                                                                         *)
(* A Go int64 is kept at its full width: a value is a tuple of four 16-bit *)
(* limbs, least significant first, in two's complement.  All arithmetic on *)
(* it wraps modulo 2^64 exactly as Go's does.  A string is a sequence of   *)
(* byte codes.                                                             *)
(***************************************************************************)
EXTENDS Integers, Sequences, FiniteSets, TLC

\* ------------------------------------------------------------------ bounds
\* Every ID 0..MaxSmallID is encoded (covers one-, two- and three-symbol strings).
MaxSmallID == 4000
\* Input strings handed to the parsers have at most MaxLen bytes.
MaxLen == 3
\* The constructor is tried with shardBitSize in 0..MaxShardArg and
\* seqBitSize in 0..MaxSeqArg.
MaxShardArg == 10
MaxSeqArg == 18
\* The sequential scenario makes at most MaxCalls NextID calls.
MaxCalls == 258
\* The concurrent scenario: callers, clock ticks and sequence reads per shard.
NumProcs == 3
MaxClock == 2
MaxSeq == 3

\* ------------------------------------------------------- int64 arithmetic
LimbBase == 2^16

Zero == <<0, 0, 0, 0>>

\* The int64 of a small natural number (n < 2^31).
FromNat(n) == <<n % LimbBase, n \div LimbBase, 0, 0>>

\* i < 0 on an int64: the sign bit.
IsNeg(x) == x[4] >= LimbBase \div 2

\* x*m + a on int64, wrapping modulo 2^64 (0 <= m <= 2^15, 0 <= a < 2^15).
MulAdd(x, m, a) ==
    LET t1 == x[1] * m + a
        t2 == x[2] * m + (t1 \div LimbBase)
        t3 == x[3] * m + (t2 \div LimbBase)
        t4 == x[4] * m + (t3 \div LimbBase)
    IN  <<t1 % LimbBase, t2 % LimbBase, t3 % LimbBase, t4 % LimbBase>>

\* x / m and x % m on a non-negative int64, 0 < m < 2^15 (schoolbook division).
DivMod(x, m) ==
    LET q4 == x[4] \div m
        r4 == x[4] % m
        t3 == r4 * LimbBase + x[3]
        q3 == t3 \div m
        r3 == t3 % m
        t2 == r3 * LimbBase + x[2]
        q2 == t2 \div m
        r2 == t2 % m
        t1 == r2 * LimbBase + x[1]
    IN  [q |-> <<t1 \div m, q2, q3, q4>>, r |-> t1 % m]

\* -x on int64 (two's complement, wrapping: -MinInt64 = MinInt64).
Neg(x) ==
    MulAdd(<<LimbBase - 1 - x[1], LimbBase - 1 - x[2],
             LimbBase - 1 - x[3], LimbBase - 1 - x[4]>>, 1, 1)

\* x << n on int64 (n >= 0), bits shifted out are lost.
RECURSIVE Shl(_, _)
Shl(x, n) ==
    IF n >= 16 THEN Shl(<<0, x[1], x[2], x[3]>>, n - 16)
    ELSE MulAdd(x, 2^n, 0)

\* x >> n on int64 (n >= 0): Go's arithmetic shift, the sign bit is copied in.
RECURSIVE Sar(_, _)
Sar(x, n) ==
    LET fill == IF IsNeg(x) THEN LimbBase - 1 ELSE 0
        lo   == 2^n
        hi   == 2^(16 - n)
    IN  IF n >= 16 THEN Sar(<<x[2], x[3], x[4], fill>>, n - 16)
        ELSE <<(x[1] \div lo) + (x[2] % lo) * hi,
               (x[2] \div lo) + (x[3] % lo) * hi,
               (x[3] \div lo) + (x[4] % lo) * hi,
               (x[4] \div lo) + (fill % lo) * hi>>

\* Bitwise or / xor of two 16-bit limbs.
RECURSIVE LimbOr(_, _, _)
LimbOr(a, b, k) ==
    IF k = 0 THEN 0
    ELSE (IF a % 2 = 1 \/ b % 2 = 1 THEN 1 ELSE 0)
         + 2 * LimbOr(a \div 2, b \div 2, k - 1)

RECURSIVE LimbXor(_, _, _)
LimbXor(a, b, k) ==
    IF k = 0 THEN 0
    ELSE ((a + b) % 2) + 2 * LimbXor(a \div 2, b \div 2, k - 1)

\* x | y and x ^ y on int64.
Or(x, y) ==
    <<LimbOr(x[1], y[1], 16), LimbOr(x[2], y[2], 16),
      LimbOr(x[3], y[3], 16), LimbOr(x[4], y[4], 16)>>

Xor(x, y) ==
    <<LimbXor(x[1], y[1], 16), LimbXor(x[2], y[2], 16),
      LimbXor(x[3], y[3], 16), LimbXor(x[4], y[4], 16)>>

\* x % (1 << n) on int64, 0 <= n <= 16: Go's remainder truncates toward zero,
\* so it carries the sign of x.
RemPow2(x, n) ==
    IF IsNeg(x) THEN Neg(<<Neg(x)[1] % 2^n, 0, 0, 0>>)
    ELSE <<x[1] % 2^n, 0, 0, 0>>

\* x < y on int64 (signed).
Lt(x, y) ==
    LET key(v) == <<(v[4] + LimbBase \div 2) % LimbBase, v[3], v[2], v[1]>>
        a == key(x)
        b == key(y)
    IN  \E i \in 1..4 : a[i] < b[i] /\ \A j \in 1..(i - 1) : a[j] = b[j]

\* ------------------------------------------------------------ ID codecs
\* Byte codes of the character literals the codecs use.
Ch0 == 48
Ch9 == 57
ChA == 65
ChZ == 90
Cha == 97
Chz == 122

\* var bytes [16]byte
BufSize == 16

\* The base of the short codec (k % 62, k /= 62, k*62 + v).
ShortBase == 62

prettyTableSize == 34

\* '1'..'9', 'A'..'N', 'P'..'Z': no '0' and no 'O'.
prettyTable ==
    <<49, 50, 51, 52, 53, 54, 55, 56, 57,
      65, 66, 67, 68, 69, 70, 71,
      72, 73, 74, 75, 76, 77, 78,
      80, 81,
      82, 83, 84,
      85, 86, 87,
      88, 89, 90>>

\* What an encoder call produces: a panic, or the string returned.
Panicked == [panic |-> TRUE, s |-> <<>>]

Returned(s) == [panic |-> FALSE, s |-> s]

\* ShortByte with its second case off by one (j < 35 for j <= 35).
ShortByteOffByOne(j) ==
    IF j <= 9 THEN Ch0 + j
    ELSE IF j < 35 THEN ChA + j - 10
    ELSE Cha + j - 36

\* The switch of ShortString: the byte of digit j.
ShortByte(j) ==
    IF j <= 9 THEN Ch0 + j
    ELSE IF j <= 35 THEN ChA + j - 10
    ELSE Cha + j - 36

\* The for loop of ShortString: bytes[n] is written, k divided, and the filled
\* suffix bytes[n:] returned once k is 0.  Writing bytes[n] with n < 0 is an
\* index out of range, a run-time panic.
RECURSIVE ShortLoop(_, _, _)
ShortLoop(k, n, suffix) ==
    IF n < 0 THEN Panicked
    ELSE LET d     == DivMod(k, ShortBase)
             bytes == <<ShortByte(d.r)>> \o suffix
         IN  IF d.q = Zero THEN Returned(bytes)
             ELSE ShortLoop(d.q, n - 1, bytes)

\* ShortInvalid with i <= 0 for i < 0.
ShortInvalidInclusive(i) == IsNeg(i) \/ i = Zero

\* if i < 0 { panic("invalid id") } of ShortString.
ShortInvalid(i) == IsNeg(i)

ShortString(i) ==
    IF ShortInvalid(i) THEN Panicked ELSE ShortLoop(i, BufSize - 1, <<>>)

\* What a parser returns: (ID, error).
ParseError == [id |-> Zero, err |-> TRUE]

Parsed(k) == [id |-> k, err |-> FALSE]

\* The switch of ParseShortID: the digit of byte b, -1 for the default case.
ShortDigit(b) ==
    IF b >= Ch0 /\ b <= Ch9 THEN b - Ch0
    ELSE IF b >= ChA /\ b <= ChZ THEN 10 + b - ChA
    ELSE IF b >= Cha /\ b <= Chz THEN 36 + b - Cha
    ELSE -1

\* ShortReject returning the value accumulated so far with the error.
ShortRejectPartial(k) == [id |-> k, err |-> TRUE]

\* What ParseShortID returns from its default case, k being the value
\* accumulated so far.
ShortReject(k) == ParseError

RECURSIVE ParseShortLoop(_, _, _)
ParseShortLoop(s, i, k) ==
    IF i > Len(s) THEN Parsed(k)
    ELSE LET v == ShortDigit(s[i])
         IN  IF v < 0 THEN ShortReject(k)
             ELSE ParseShortLoop(s, i + 1, MulAdd(k, ShortBase, v))

ParseShortID(s) ==
    IF Len(s) = 0 THEN ParseError ELSE ParseShortLoop(s, 1, Zero)

\* The for loop of PrettyString.
RECURSIVE PrettyLoop(_, _, _)
PrettyLoop(k, n, suffix) ==
    IF n < 0 THEN Panicked
    ELSE LET d     == DivMod(k, prettyTableSize)
             bytes == <<prettyTable[d.r + 1]>> \o suffix
         IN  IF d.q = Zero THEN Returned(bytes)
             ELSE PrettyLoop(d.q, n - 1, bytes)

PrettyString(i) ==
    IF IsNeg(i) THEN Panicked ELSE PrettyLoop(i, BufSize - 1, <<>>)

\* strings.ToUpper on one ASCII byte.
ToUpper(b) == IF b >= Cha /\ b <= Chz THEN b - (Cha - ChA) ELSE b

\* Binary search of prettyTable: the 0-based index of v, or -1.
RECURSIVE searchLoop(_, _, _)
searchLoop(v, left, right) ==
    IF right >= left
    THEN LET mid == (left + right) \div 2
         IN  IF prettyTable[mid + 1] = v THEN mid
             ELSE IF prettyTable[mid + 1] > v THEN searchLoop(v, left, mid - 1)
             ELSE searchLoop(v, mid + 1, right)
    ELSE -1

searchPrettyTable(v) == searchLoop(v, 0, prettyTableSize - 1)

\* if i <= 0 { return 0, errors.New("parse error") } of ParsePrettyID.
PrettyRejects(i) == i <= 0

RECURSIVE ParsePrettyLoop(_, _, _)
ParsePrettyLoop(s, n, k) ==
    IF n > Len(s) THEN Parsed(k)
    ELSE LET i == searchPrettyTable(ToUpper(s[n]))
         IN  IF PrettyRejects(i) THEN ParseError
             ELSE ParsePrettyLoop(s, n + 1, MulAdd(k, prettyTableSize, i))

ParsePrettyID(s) ==
    IF Len(s) = 0 THEN ParseError ELSE ParsePrettyLoop(s, 1, Zero)

\* ------------------------------------------------------- number sources
\* The body of GetShardIDByIP after the address is resolved: the first 8 bytes
\* of the address folded into an int64 (num <<= 8; num |= int64(ipBytes[i])).
RECURSIVE FoldIP(_, _, _)
FoldIP(ipBytes, i, num) ==
    IF i < 8 /\ i < Len(ipBytes)
    THEN FoldIP(ipBytes, i + 1, Or(Shl(num, 8), FromNat(ipBytes[i + 1])))
    ELSE num

GetShardIDByIP(ipBytes) == FoldIP(ipBytes, 0, Zero)

KeepRightBits(i, bitSize) == Xor(Shl(Sar(i, bitSize), bitSize), i)

\* The externally supplied sequence counter: each GetNumber returns the current
\* value and advances it by one, atomically.
CounterIncrement(c) == c + 1

\* ------------------------------------------------------ SnakeIDGenerator
DefaultShardBitSize == 8

DefaultSeqBitSize == 8

\* SumTooLarge with > for >=.
SumTooLargeOffByOne(shardBitSize, seqBitSize) == shardBitSize + seqBitSize > 20

\* if shardBitSize+seqBitSize >= 20 { panic(...) }
SumTooLarge(shardBitSize, seqBitSize) == shardBitSize + seqBitSize >= 20

\* The constructor's result: a panic, or the generator's two widths (its three
\* sources are the inputs of NextID below).  The arguments are Go uints.
NewSnakeIDGenerator(shardBitSize, seqBitSize) ==
    IF seqBitSize < 1 \/ seqBitSize > 16
        THEN [panic |-> TRUE, seqBitSize |-> 0, shardBitSize |-> 0]
    ELSE IF shardBitSize < 0 \/ shardBitSize > 8
        THEN [panic |-> TRUE, seqBitSize |-> 0, shardBitSize |-> 0]
    ELSE IF SumTooLarge(shardBitSize, seqBitSize)
        THEN [panic |-> TRUE, seqBitSize |-> 0, shardBitSize |-> 0]
    ELSE [panic |-> FALSE, seqBitSize |-> seqBitSize, shardBitSize |-> shardBitSize]

\* id := ID(g.seqNumGetter.GetNumber() % (1 << g.seqBitSize))
SeqField(g, q) == RemPow2(q, g.seqBitSize)

\* ID(KeepRightBits(g.shardIDGetter.GetNumber(), g.shardBitSize) << g.seqBitSize)
ShardField(g, s) == Shl(KeepRightBits(s, g.shardBitSize), g.seqBitSize)

\* TimeField shifted past the sequence field only.
TimeFieldSeqOnly(g, ts) == Shl(ts, g.seqBitSize)

\* ID(g.timestampGetter.GetNumber() << (g.seqBitSize + g.shardBitSize))
TimeField(g, ts) == Shl(ts, g.seqBitSize + g.shardBitSize)

\* NextID of generator g whose sequence, shard and timestamp sources return
\* q, s and ts.
NextID(g, q, s, ts) == Or(Or(SeqField(g, q), ShardField(g, s)), TimeField(g, ts))

\* ------------------------------------------------------------------ state
VARIABLES
    cid,        \* codec: the ID last encoded
    txt,        \* codec: the encoder's outcome, or the string input
    src,        \* codec: "none" | "short" | "pretty" | "input": where txt is from
    parsed,     \* codec: what the parser returned
    dec,        \* codec: "none" | "short" | "pretty": the parser that ran on txt
    gen,        \* the constructor call made and its outcome
    prev,       \* the NextID call before the last: source values and result
    cur,        \* the last NextID call
    calls,      \* NextID calls made
    srcT,       \* sequential scenario: the fixed timestamp source
    srcS,       \* sequential scenario: the fixed shard source
    counter,    \* sequential scenario: the sequence source, yielding 0, 1, 2, ...
    pc,         \* concurrent scenario: each caller's position inside NextID
    acc,        \* concurrent scenario: each caller's local id
    seqCounter, \* concurrent scenario: each shard's atomic counter
    now,        \* concurrent scenario: the clock, in ticks
    reads,      \* concurrent scenario: each shard's counter reads in this tick
    minted,     \* concurrent scenario: the IDs returned so far
    dup         \* concurrent scenario: an ID was returned twice

codecVars == <<cid, txt, src, parsed, dec>>

genVars == <<gen, prev, cur, calls>>

seqVars == <<srcT, srcS, counter>>

concVars == <<pc, acc, seqCounter, now, reads, minted, dup>>

vars == <<cid, txt, src, parsed, dec, gen, prev, cur, calls,
          srcT, srcS, counter, pc, acc, seqCounter, now, reads, minted, dup>>

\* ----------------------------------------------------------------- inputs
MaxInt64 == <<LimbBase - 1, LimbBase - 1, LimbBase - 1, LimbBase \div 2 - 1>>

MinInt64 == <<0, 0, 0, LimbBase \div 2>>

\* IDs handed to the encoders: every small one, and the corners of the int64
\* range on both sides of the sign bit.
SampleIDs ==
    {FromNat(n) : n \in 0..MaxSmallID}
    \cup {FromNat(n) : n \in {34^2 - 1, 34^2, 62^2 - 1, 62^2, 34^3 - 1, 34^3,
                              62^3 - 1, 62^3, 62^5 - 1, 62^5}}
    \cup {<<a, b, c, d>> : a \in {0, 1, 61, 62, LimbBase - 1},
                           b \in {0, LimbBase - 1},
                           c \in {0, LimbBase - 1},
                           d \in {0, 1, LimbBase \div 2 - 1, LimbBase \div 2,
                                  LimbBase - 1}}

\* Bytes of the strings handed to the parsers: the ends of each class of either
\* alphabet, their neighbours outside, and 'O', which only the pretty table lacks.
SampleBytes ==
    {Ch0 - 1, Ch0, Ch0 + 1, Ch9, ChA, 79, ChZ, ChZ + 1, Cha, Chz, Chz + 1}

RECURSIVE StringsUpTo(_)
StringsUpTo(n) ==
    IF n = 0 THEN {<<>>}
    ELSE LET shorter == StringsUpTo(n - 1)
         IN  shorter \cup {Append(s, b) : s \in shorter, b \in SampleBytes}

InputStrings == StringsUpTo(MaxLen)

\* Addresses the resolver may hand to GetShardIDByIP: 4-byte IPv4, its 16-byte
\* form, and an IPv6 address whose first byte has the top bit set.
SampleIPs ==
    {<<10, 0, 0, 3>>,
     <<0, 0, 0, 0, 0, 0, 0, 0, 0, 0, 255, 255, 10, 0, 0, 3>>,
     <<254, 128, 0, 0, 0, 0, 0, 1, 2, 3, 4, 5, 6, 7, 8, 9>>}

\* Values the sequence source may return: small, at and past the field width,
\* and after the int64 counter has wrapped.
SeqValues ==
    {Zero, FromNat(5), FromNat(255), FromNat(256), Neg(FromNat(1)), MinInt64}

ShardValues ==
    {Zero, FromNat(3), FromNat(300)} \cup {GetShardIDByIP(ip) : ip \in SampleIPs}

\* Timestamps: non-negative and below 2^44, which fit above any valid widths.
TimeValues == {Zero, FromNat(1000), <<LimbBase - 1, LimbBase - 1, 2^12 - 1, 0>>}

\* Widths handed to the constructor before minting.
SampleWidths == {<<8, 8>>, <<0, 1>>, <<8, 11>>, <<3, 16>>, <<9, 8>>, <<8, 12>>}

\* The sequential scenario's fixed sources.
SeqScenarioShards == {Zero, FromNat(3), FromNat(255), FromNat(300)}

SeqScenarioTimes ==
    {Zero, FromNat(1000), <<LimbBase - 1, LimbBase - 1, 2^15 - 1, 0>>,
     <<0, 0, 2^15, 0>>}

Procs == 1..NumProcs

\* The concurrent scenario has two shards with the distinct identifiers 0 and 1;
\* caller p runs on shard p % 2.
Shards == {0, 1}

ShardOf(p) == p % 2

\* -------------------------------------------------------------- initial
NoGen == [made |-> FALSE, shardArg |-> 0, seqArg |-> 0,
          g |-> [panic |-> TRUE, seqBitSize |-> 0, shardBitSize |-> 0]]

Made(sh, sq) == [made |-> TRUE, shardArg |-> sh, seqArg |-> sq,
                 g |-> NewSnakeIDGenerator(sh, sq)]

NoCall == [q |-> Zero, s |-> Zero, ts |-> Zero, id |-> Zero]

CodecIdle ==
    /\ cid = Zero
    /\ txt = Returned(<<>>)
    /\ src = "none"
    /\ parsed = Parsed(Zero)
    /\ dec = "none"

GenIdle ==
    /\ prev = NoCall
    /\ cur = NoCall
    /\ calls = 0

SeqIdle ==
    /\ srcT = Zero
    /\ srcS = Zero
    /\ counter = 0

ConcIdle ==
    /\ pc = [p \in Procs |-> "idle"]
    /\ acc = [p \in Procs |-> Zero]
    /\ seqCounter = [sh \in Shards |-> 0]
    /\ now = 0
    /\ reads = [sh \in Shards |-> 0]
    /\ minted = {}
    /\ dup = FALSE

\* ---------------------------------------------------------- codec steps
EncodeShort ==
    /\ src = "none"
    /\ \E v \in SampleIDs :
          /\ cid' = v
          /\ txt' = ShortString(v)
    /\ src' = "short"
    /\ dec' = "none"
    /\ parsed' = Parsed(Zero)
    /\ UNCHANGED <<genVars, seqVars, concVars>>

EncodePretty ==
    /\ src = "none"
    /\ \E v \in SampleIDs :
          /\ cid' = v
          /\ txt' = PrettyString(v)
    /\ src' = "pretty"
    /\ dec' = "none"
    /\ parsed' = Parsed(Zero)
    /\ UNCHANGED <<genVars, seqVars, concVars>>

\* A caller supplies a string of its own.
Input ==
    /\ src = "none"
    /\ cid' = Zero
    /\ \E s \in InputStrings : txt' = Returned(s)
    /\ src' = "input"
    /\ dec' = "none"
    /\ parsed' = Parsed(Zero)
    /\ UNCHANGED <<genVars, seqVars, concVars>>

DecodeShort ==
    /\ src # "none"
    /\ ~txt.panic
    /\ dec = "none"
    /\ parsed' = ParseShortID(txt.s)
    /\ dec' = "short"
    /\ UNCHANGED <<cid, txt, src, genVars, seqVars, concVars>>

DecodePretty ==
    /\ src # "none"
    /\ ~txt.panic
    /\ dec = "none"
    /\ parsed' = ParsePrettyID(txt.s)
    /\ dec' = "pretty"
    /\ UNCHANGED <<cid, txt, src, genVars, seqVars, concVars>>

InitCodec == CodecIdle /\ gen = NoGen /\ GenIdle /\ SeqIdle /\ ConcIdle

NextCodec ==
    \/ EncodeShort
    \/ EncodePretty
    \/ Input
    \/ DecodeShort
    \/ DecodePretty

SpecCodec == InitCodec /\ [][NextCodec]_vars

\* ------------------------------------------------------ generator steps
Construct(sh, sq) ==
    /\ ~gen.made
    /\ gen' = Made(sh, sq)
    /\ UNCHANGED <<prev, cur, calls, codecVars, seqVars, concVars>>

\* One NextID call whose three sources return q, s and ts.
Mint ==
    /\ gen.made
    /\ ~gen.g.panic
    /\ calls < 2
    /\ prev' = cur
    /\ \E q \in SeqValues, s \in ShardValues, ts \in TimeValues :
          cur' = [q |-> q, s |-> s, ts |-> ts, id |-> NextID(gen.g, q, s, ts)]
    /\ calls' = calls + 1
    /\ UNCHANGED <<gen, codecVars, seqVars, concVars>>

InitGen == CodecIdle /\ gen = NoGen /\ GenIdle /\ SeqIdle /\ ConcIdle

NextCtor == \E sh \in 0..MaxShardArg, sq \in 0..MaxSeqArg : Construct(sh, sq)

SpecCtor == InitGen /\ [][NextCtor]_vars

NextGen ==
    \/ \E w \in SampleWidths : Construct(w[1], w[2])
    \/ Mint

SpecGen == InitGen /\ [][NextGen]_vars

\* -------------------------------------------------- sequential scenario
\* The default instance (8 shard bits, 8 sequence bits) over a fixed timestamp,
\* a fixed shard and a counter that yields 0, 1, 2, ... in order.
InitSeq ==
    /\ CodecIdle
    /\ gen = Made(DefaultShardBitSize, DefaultSeqBitSize)
    /\ GenIdle
    /\ srcT \in SeqScenarioTimes
    /\ srcS \in SeqScenarioShards
    /\ counter = 0
    /\ ConcIdle

SeqNextID ==
    /\ counter < MaxCalls
    /\ counter' = CounterIncrement(counter)
    /\ prev' = cur
    /\ cur' = [q |-> FromNat(counter), s |-> srcS, ts |-> srcT,
               id |-> NextID(gen.g, FromNat(counter), srcS, srcT)]
    /\ calls' = calls + 1
    /\ UNCHANGED <<gen, srcT, srcS, codecVars, concVars>>

NextSeq == SeqNextID

SpecSeq == InitSeq /\ [][NextSeq]_vars

\* -------------------------------------------------- concurrent scenario
\* Callers of one generator configuration on two shards.  NextID is three
\* separate reads; a caller may be preempted between any two of them.  Each
\* shard's counter is read and incremented atomically, fewer than
\* 2^seqBitSize times per tick.
InitConc ==
    /\ CodecIdle
    /\ gen = Made(1, 1)
    /\ GenIdle
    /\ SeqIdle
    /\ ConcIdle

\* id := ID(g.seqNumGetter.GetNumber() % (1 << g.seqBitSize))
ReadSeq(p) ==
    /\ pc[p] = "idle"
    /\ seqCounter[ShardOf(p)] < MaxSeq
    /\ reads[ShardOf(p)] + 1 < 2^gen.g.seqBitSize
    /\ acc' = [acc EXCEPT ![p] = SeqField(gen.g, FromNat(seqCounter[ShardOf(p)]))]
    /\ seqCounter' = [seqCounter EXCEPT ![ShardOf(p)] = CounterIncrement(@)]
    /\ reads' = [reads EXCEPT ![ShardOf(p)] = @ + 1]
    /\ pc' = [pc EXCEPT ![p] = "shard"]
    /\ UNCHANGED <<now, minted, dup, codecVars, genVars, seqVars>>

\* id |= ID(KeepRightBits(g.shardIDGetter.GetNumber(), g.shardBitSize) << g.seqBitSize)
ReadShard(p) ==
    /\ pc[p] = "shard"
    /\ acc' = [acc EXCEPT ![p] = Or(@, ShardField(gen.g, FromNat(ShardOf(p))))]
    /\ pc' = [pc EXCEPT ![p] = "time"]
    /\ UNCHANGED <<seqCounter, now, reads, minted, dup, codecVars, genVars, seqVars>>

\* id |= ID(g.timestampGetter.GetNumber() << (...)); return ID(id)
ReadTime(p) ==
    /\ pc[p] = "time"
    /\ LET id == Or(acc[p], TimeField(gen.g, FromNat(now)))
       IN  /\ acc' = [acc EXCEPT ![p] = id]
           /\ dup' = (dup \/ id \in minted)
           /\ minted' = minted \cup {id}
    /\ pc' = [pc EXCEPT ![p] = "idle"]
    /\ UNCHANGED <<seqCounter, now, reads, codecVars, genVars, seqVars>>

\* The clock advances by one tick.
Tick ==
    /\ now < MaxClock
    /\ now' = now + 1
    /\ reads' = [sh \in Shards |-> 0]
    /\ UNCHANGED <<pc, acc, seqCounter, minted, dup, codecVars, genVars, seqVars>>

NextConc ==
    \/ \E p \in Procs : ReadSeq(p)
    \/ \E p \in Procs : ReadShard(p)
    \/ \E p \in Procs : ReadTime(p)
    \/ Tick

SpecConc == InitConc /\ [][NextConc]_vars

\* ------------------------------------------------------------------ claims
\* The low n bits of x as a non-negative number (x mod 2^n, 0 <= n <= 16).
FloorMod2(x, n) == <<x[1] % 2^n, 0, 0, 0>>

\* The (timestamp, shard mod 2^shardBits, sequence mod 2^sequenceBits) tuple of
\* a NextID call, and the lexicographic order on such tuples.
FieldTuple(c) ==
    <<c.ts, FloorMod2(c.s, gen.g.shardBitSize), FloorMod2(c.q, gen.g.seqBitSize)>>

LexLess(a, b) ==
    \E i \in 1..3 : Lt(a[i], b[i]) /\ \A j \in 1..(i - 1) : a[j] = b[j]

InShortAlphabet(b) == b \in (Ch0..Ch9) \cup (ChA..ChZ) \cup (Cha..Chz)

PrettySymbols == {prettyTable[i] : i \in 1..prettyTableSize}

InPrettyAlphabet(b) ==
    \/ b \in PrettySymbols
    \/ b \in Cha..Chz /\ (b - Cha + ChA) \in PrettySymbols

\* C1: under the stated premises (distinct constant shard identifiers that fit
\* in shardBits, an atomically incrementing counter per shard read fewer than
\* 2^sequenceBits times per tick), no two NextID calls return the same ID, in
\* any interleaving of the callers' three reads with each other and the clock.
C1_GloballyUnique == ~dup

\* C2: for every non-negative ID v, ShortString does not abort and
\* ParseShortID(v.ShortString()) returns v with no error.
C2_ShortRoundTrip ==
    (src = "short" /\ ~IsNeg(cid)) =>
        /\ ~txt.panic
        /\ dec = "short" => parsed = [id |-> cid, err |-> FALSE]

C2_Witness ==
    /\ src = "short"
    /\ dec = "short"
    /\ cid = MaxInt64
    /\ Len(txt.s) = 11
    /\ parsed = [id |-> MaxInt64, err |-> FALSE]

\* C3: for every non-negative ID v, ParsePrettyID(v.PrettyString()) returns v
\* with no error.
C3_PrettyRoundTrip ==
    (src = "pretty" /\ ~IsNeg(cid)) =>
        /\ ~txt.panic
        /\ dec = "pretty" => parsed = [id |-> cid, err |-> FALSE]

\* C4: NextID equals (q mod 2^seqBits) | ((s mod 2^shardBits) << seqBits)
\* | (t << (seqBits + shardBits)); with widths 8/8, t = 1000, s = 3, q = 5 it is
\* (1000<<16) | (3<<8) | 5; and the three fields do not overlap: each component
\* is recovered from the ID by shifting and masking.
C4_PackingFormula ==
    calls >= 1 =>
        LET sb == gen.g.seqBitSize
            hb == gen.g.shardBitSize
        IN  /\ cur.id = Or(Or(FloorMod2(cur.q, sb), Shl(FloorMod2(cur.s, hb), sb)),
                           Shl(cur.ts, sb + hb))
            /\ FloorMod2(cur.id, sb) = FloorMod2(cur.q, sb)
            /\ FloorMod2(Sar(cur.id, sb), hb) = FloorMod2(cur.s, hb)
            /\ Sar(cur.id, sb + hb) = cur.ts
            /\ (sb = 8 /\ hb = 8 /\ cur.q = FromNat(5) /\ cur.s = FromNat(3)
                  /\ cur.ts = FromNat(1000))
               => cur.id = FromNat(1000 * 2^16 + 3 * 2^8 + 5)

\* C5: the constructor returns a generator exactly when seqBitSize is in
\* [1,16], shardBitSize is in [0,8] and their sum is below 20, and panics
\* otherwise; the generator it returns holds the widths given.
C5_ConstructionValidation ==
    gen.made =>
        /\ ~gen.g.panic <=> (/\ gen.seqArg \in 1..16
                             /\ gen.shardArg \in 0..8
                             /\ gen.seqArg + gen.shardArg < 20)
        /\ ~gen.g.panic => (/\ gen.g.seqBitSize = gen.seqArg
                            /\ gen.g.shardBitSize = gen.shardArg)

C5_Witness ==
    /\ gen.made
    /\ gen.shardArg = 8
    /\ gen.seqArg = 11
    /\ ~gen.g.panic

\* C6: both parsers return a parse error with the value 0 for the empty string
\* and for every string with at least one character outside their alphabet
\* (for the pretty parser: outside the table after upper-casing), wherever
\* that character stands.
C6_MalformedRejected ==
    /\ (dec = "short"
          /\ (txt.s = <<>> \/ \E i \in 1..Len(txt.s) : ~InShortAlphabet(txt.s[i])))
       => parsed = [id |-> Zero, err |-> TRUE]
    /\ (dec = "pretty"
          /\ (txt.s = <<>> \/ \E i \in 1..Len(txt.s) : ~InPrettyAlphabet(txt.s[i])))
       => parsed = [id |-> Zero, err |-> TRUE]

C6_Witness ==
    /\ src = "input"
    /\ dec = "short"
    /\ txt.s = <<ChA, Ch9, Chz + 1>>
    /\ parsed = [id |-> Zero, err |-> TRUE]

\* C7: the numeric order of two IDs minted with the same widths is the
\* lexicographic order of their (timestamp, shard mod 2^shardBits, sequence mod
\* 2^sequenceBits) tuples, so id1 < id2 implies timestamp1 <= timestamp2,
\* whatever the shard and sequence sources return.
C7_TimestampOrdering ==
    calls = 2 =>
        /\ Lt(prev.id, cur.id) <=> LexLess(FieldTuple(prev), FieldTuple(cur))
        /\ Lt(prev.id, cur.id) => ~Lt(cur.ts, prev.ts)

\* C8 as stated: with widths 8/8, a fixed timestamp T, a fixed shard S and the
\* sequence 0..N-1, the N IDs are strictly increasing, differ only in their low
\* 8 bits, and each shifted right by 16 is (T<<8)|S.
C8_SequentialPackingAsStated ==
    /\ calls >= 1 => Sar(cur.id, 16) = Or(Shl(srcT, 8), srcS)
    /\ calls >= 2 => (Lt(prev.id, cur.id) /\ Sar(prev.id, 8) = Sar(cur.id, 8))

\* C8 amended: with 0 <= S < 2^8, 0 <= T < 2^47 and N <= 2^8, the N IDs are
\* strictly increasing, differ only in their low 8 bits, and each shifted right
\* by 8 is (T<<8)|S (and shifted right by 16 is T).
C8_SequentialPacking ==
    (/\ ~IsNeg(srcS) /\ Lt(srcS, FromNat(2^8))
     /\ ~IsNeg(srcT) /\ Lt(srcT, <<0, 0, 2^15, 0>>)
     /\ calls <= 2^8)
    => /\ calls >= 1 => (/\ Sar(cur.id, 8) = Or(Shl(srcT, 8), srcS)
                         /\ Sar(cur.id, 16) = srcT)
       /\ calls >= 2 => (Lt(prev.id, cur.id) /\ Sar(prev.id, 8) = Sar(cur.id, 8))

C8_Witness ==
    /\ calls = 2^8
    /\ srcS = FromNat(3)
    /\ srcT = FromNat(1000)
    /\ prev.id = FromNat(1000 * 2^16 + 3 * 2^8 + 254)
    /\ cur.id = FromNat(1000 * 2^16 + 3 * 2^8 + 255)

\* C9: ShortString and PrettyString panic for every negative ID, and for every
\* non-negative ID return a string of 1 to 16 symbols.
C9_NegativeAbort ==
    src \in {"short", "pretty"} =>
        /\ Lt(cid, Zero) => txt.panic
        /\ ~Lt(cid, Zero) => (~txt.panic /\ Len(txt.s) \in 1..16)

C9_Witness ==
    /\ src = "short"
    /\ cid = Neg(FromNat(1))
    /\ txt.panic

\* C10: every ID NextID returns is non-negative, so encoding it never aborts,
\* for every value the sequence and shard sources return and a non-negative
\* timestamp below 2^(63 - sequenceBits - shardBits).
C10_NonNegative ==
    calls >= 1 =>
        /\ ~Lt(cur.id, Zero)
        /\ ~ShortString(cur.id).panic
        /\ ~PrettyString(cur.id).panic

====
